---- MODULE Spec2Model ----
(***************************************************************************)
(* pandapower: the OPF objective builder (make_objective.py) and the       *)
(* time-series value injector ConstControl (const_control.py).             *)
(*                                                                         *)
(* numpy arrays are functions over 0..n-1 (python's zero-based rows), a    *)
(* python dict is a function over its keys, a scipy sparse matrix is its   *)
(* shape and its stored entries.  A float is a tagged pair, so that NaN    *)
(* and the infinities are values of their own.                             *)
(***************************************************************************)
EXTENDS Integers, Sequences, FiniteSets, TLC

VARIABLES
    ppci,            \* the internal case _make_objective writes
    pd2ppc_lookups,  \* net._pd2ppc_lookups
    is_elems,        \* the in-service elements of each category
    call,            \* the arguments of the last _make_objective call
    net,             \* the net a ConstControl writes to
    ctrl,            \* the fields of the ConstControl
    op,              \* the last ConstControl operation and how it ended
    phase            \* the last of construct, time_step, control_step

objVars == <<ppci, pd2ppc_lookups, is_elems, call>>
ctlVars == <<net, ctrl, op, phase>>
vars == <<ppci, pd2ppc_lookups, is_elems, call, net, ctrl, op, phase>>

----------------------------------------------------------------------------
(* Bounds of the model *)
MaxBus == 2
MaxGen == 2
MaxBranch == 2
MaxRows == 3
MaxTime == 1

(* Values the inputs are drawn from *)
Lambdas == {0, 2}
Admittances == {0, 1}
CostFunctions == {"linear", "linear_minloss", "quadratic"}

----------------------------------------------------------------------------
(* floats *)
Fin(n) == <<"fin", n>>
NaN == <<"nan", 0>>
PosInf == <<"inf", 1>>
NegInf == <<"inf", -1>>
(* the largest finite double, with a sign *)
MaxFloat(sign) == <<"max", sign>>

CostValues == {Fin(10), NaN, PosInf, NegInf}

(* x * k for a float x and a positive finite k *)
MulFloat(x, k) == IF x[1] = "fin" THEN Fin(x[2] * k) ELSE x

NanToNumIdentity(x) == x

(* numpy.nan_to_num: NaN becomes 0.0, an infinity the largest finite float *)
(* of its sign, anything else is kept                                       *)
NanToNum(x) ==
    CASE x[1] = "nan" -> Fin(0)
      [] x[1] = "inf" -> MaxFloat(x[2])
      [] OTHER -> x

----------------------------------------------------------------------------
(* arrays and dicts *)
Len0(a) == Cardinality(DOMAIN a)
Arrays(S, n) == UNION {[0..(k - 1) -> S] : k \in 0..n}
SetKey(d, k, v) == (k :> v) @@ d

(* a sparse matrix: its shape and its stored entries *)
SparseMatrix(rows, cols) == [shape |-> <<rows, cols>>, data |-> <<>>]
SetItem(M, i, j, x) == [M EXCEPT !.data = (<<i, j>> :> x) @@ M.data]
GetItem(M, i, j) == IF <<i, j>> \in DOMAIN M.data THEN M.data[<<i, j>>] ELSE 0

----------------------------------------------------------------------------
(* pypower constants *)
REF == 3
PQ == 1
(* kW to MW scaling of the cost coefficient *)
KW == 1000
eps == 0

Categories == <<"ext_grid", "gen", "sgen_controllable", "load_controllable">>
CategorySet == {Categories[i] : i \in 1..4}

RefTemplate == <<1, 0, 0, 2, 0, 0, 1, 1>>
GenTemplate == <<1, 0, 0, 2, 0, 0, 1, 0>>
TemplateRow(t) == [c \in 0..7 |-> Fin(t[c + 1])]

----------------------------------------------------------------------------
(* gen_costs[lookup[elems.index]] = elems.cost_per_kw for one category;    *)
(* with a repeated row the last assignment stays                           *)
AssignCategory(gen_costs, cat) ==
    IF cat \in DOMAIN pd2ppc_lookups /\ is_elems[cat].has_cost_per_kw
    THEN LET idx == pd2ppc_lookups[cat]
             el == is_elems[cat]
             hits(r) == {k \in DOMAIN el.index : idx[el.index[k]] = r}
             last(S) == CHOOSE k \in S : \A j \in S : j <= k
         IN  [r \in DOMAIN gen_costs |->
                 IF hits(r) # {} THEN el.cost_per_kw[last(hits(r))]
                 ELSE gen_costs[r]]
    ELSE gen_costs

GenCosts(case) ==
    LET ones == [r \in DOMAIN case.gen |-> Fin(1)]
        c1 == AssignCategory(ones, Categories[1])
        c2 == AssignCategory(c1, Categories[2])
        c3 == AssignCategory(c2, Categories[3])
    IN  AssignCategory(c3, Categories[4])

NRef(case) == Cardinality({b \in DOMAIN case.bus : case.bus[b].BUS_TYPE = REF})

TemplateRowsDropLast(ng, nref) ==
    [r \in 0..(ng - 2) |->
        IF r < nref THEN TemplateRow(RefTemplate) ELSE TemplateRow(GenTemplate)]

(* zeros((ng, 8)), then the two template assignments *)
TemplateRows(ng, nref) ==
    [r \in 0..(ng - 1) |->
        IF r < nref THEN TemplateRow(RefTemplate) ELSE TemplateRow(GenTemplate)]

(* gencost[:, 7] = nan_to_num(gen_costs * 1e3) *)
Gencost(case) ==
    LET rows == TemplateRows(Len0(case.gen), NRef(case))
        costs == GenCosts(case)
    IN  [r \in DOMAIN rows |-> [rows[r] EXCEPT ![7] = NanToNum(MulFloat(costs[r], KW))]]

----------------------------------------------------------------------------
(* the bus admittance matrix, by magnitude: off the diagonal the sum of    *)
(* the admittances of the branches between the two buses, on it the sum of *)
(* those of the branches at the bus                                        *)
RECURSIVE SumY(_, _)
SumY(branch, S) ==
    IF S = {} THEN 0
    ELSE LET b == CHOOSE x \in S : TRUE IN branch[b].y + SumY(branch, S \ {b})

AbsYbus(bus, branch) ==
    [f \in DOMAIN bus |-> [t \in DOMAIN bus |->
        SumY(branch, {b \in DOMAIN branch :
            IF f = t THEN f \in {branch[b].F_BUS, branch[b].T_BUS}
            ELSE {branch[b].F_BUS, branch[b].T_BUS} = {f, t}})]]

DimHalfBranches(nb, ng, nl) == 2 * nb + 2 * ng + nl

(* dim = 2 * nb + 2 * ng + 2 * nl *)
Dim(nb, ng, nl) == 2 * nb + 2 * ng + 2 * nl

HWeightSwapped(y, lambda_opf) == [mag |-> y, ang |-> y * lambda_opf]

(* the two penalty weights of a branch of admittance magnitude y *)
HWeight(y, lambda_opf) == [mag |-> y * lambda_opf, ang |-> y]

(* one pass of the loop over the branches *)
LoopBody(i, HA, c) ==
    LET bus_f == c.branch[i].F_BUS
        bus_t == c.branch[i].T_BUS
        w == HWeight(c.Ybus[bus_f][bus_t], c.lambda_opf)
        zm == c.dim - 2 * c.nl + i
        za == c.dim - c.nl + i
        A1 == SetItem(HA.A, i, c.nb + bus_f, 1)
        A2 == SetItem(A1, i, c.nb + bus_t, -1)
        A3 == SetItem(A2, i, zm, 1)
        A4 == SetItem(A3, c.nl + i, bus_f, 1)
        A5 == SetItem(A4, c.nl + i, bus_t, -1)
        A6 == SetItem(A5, c.nl + i, za, 1)
    IN  [H |-> SetItem(SetItem(HA.H, zm, zm, w.mag), za, za, w.ang), A |-> A6]

RECURSIVE Loop(_, _, _)
Loop(i, HA, c) == IF i >= c.nl THEN HA ELSE Loop(i + 1, LoopBody(i, HA, c), c)

(* N[i, i] = 1.0 for the trailing 2*nl coordinates *)
TransformN(dim, nl) ==
    [shape |-> <<dim, dim>>,
     data |-> [p \in {<<i, i>> : i \in (dim - 2 * nl)..(dim - 1)} |-> 1]]

(* l = ones(2*nl)*eps, u = ones(2*nl)*-eps *)
Bounds(nl) == [l |-> [i \in 0..(2 * nl - 1) |-> 1 * eps],
               u |-> [i \in 0..(2 * nl - 1) |-> 1 * (-eps)]]

(* the artifacts of "linear_minloss" besides gencost *)
MinlossArtifacts(case, lambda_opf) ==
    LET nb == Len0(case.bus)
        nl == Len0(case.branch)
        ng == Len0(case.gen)
        dim == Dim(nb, ng, nl)
        c == [nb |-> nb, nl |-> nl, dim |-> dim, branch |-> case.branch,
              Ybus |-> AbsYbus(case.bus, case.branch), lambda_opf |-> lambda_opf]
        HA == Loop(0, [H |-> SparseMatrix(dim, dim), A |-> SparseMatrix(2 * nl, dim)], c)
        lu == Bounds(nl)
    IN  [H |-> HA.H,
         Cw |-> [i \in 0..(dim - 1) |-> 0],
         N |-> TransformN(dim, nl),
         A |-> HA.A,
         l |-> lu.l,
         u |-> lu.u,
         fparm |-> [i \in 0..(dim - 1) |-> <<1, 0, 0, 1>>]]

ArtifactKeys == {"H", "Cw", "N", "A", "l", "u", "fparm"}

WithMinloss(case, lambda_opf) ==
    LET art == MinlossArtifacts(case, lambda_opf)
    IN  [k \in DOMAIN case \cup ArtifactKeys |->
            IF k \in ArtifactKeys THEN art[k] ELSE case[k]]

make_objective_fallthrough(case, cost_function, lambda_opf) ==
    IF cost_function = "linear_minloss"
    THEN WithMinloss(SetKey(case, "gencost", Gencost(case)), lambda_opf)
    ELSE SetKey(case, "gencost", Gencost(case))

make_objective_linear_writes_all(case, cost_function, lambda_opf) ==
    IF cost_function \in {"linear", "linear_minloss"}
    THEN WithMinloss(SetKey(case, "gencost", Gencost(case)), lambda_opf)
    ELSE case

(* _make_objective: the case it returns (the input object, written in place) *)
make_objective(case, cost_function, lambda_opf) ==
    CASE cost_function = "linear" -> SetKey(case, "gencost", Gencost(case))
      [] cost_function = "linear_minloss" ->
            WithMinloss(SetKey(case, "gencost", Gencost(case)), lambda_opf)
      [] OTHER -> case

----------------------------------------------------------------------------
(* The prepared cases the builder is called with *)
NoCall == [cost_function |-> "", lambda_opf |-> 1]

Case(bus, branch, ng) == [bus |-> bus, branch |-> branch, gen |-> [r \in 0..(ng - 1) |-> 0]]

BusRow(t) == [BUS_TYPE |-> t]

NoElems == [c \in CategorySet |-> [index |-> <<>>, has_cost_per_kw |-> FALSE, cost_per_kw |-> <<>>]]

(* reference buses and generator rows vary; no category has a lookup *)
InitRef ==
    /\ \E bus \in Arrays({BusRow(PQ), BusRow(REF)}, MaxBus), ng \in 0..MaxGen :
          ppci = Case(bus, <<>>, ng)
    /\ pd2ppc_lookups = <<>>
    /\ is_elems = NoElems

(* the rows a category owns, in ascending order: element k of the category *)
(* is its k-th row                                                          *)
OwnedRows(owner, cat) == {r \in DOMAIN owner : owner[r] = cat}
RowOf(S, k) == CHOOSE r \in S : Cardinality({q \in S : q < r}) = k

(* the cost attributes vary: every generator row belongs to one category   *)
(* or to none                                                               *)
InitCost ==
    \E ng \in 0..MaxGen :
      \E owner \in [0..(ng - 1) -> CategorySet \cup {"none"}],
         cost \in [0..(ng - 1) -> CostValues],
         noCost \in CategorySet \cup {"none"} :
        /\ \A r \in 0..(ng - 1) : owner[r] = "none" => cost[r] = Fin(10)
        /\ noCost # "none" => OwnedRows(owner, noCost) # {}
        /\ ppci = Case(<<BusRow(REF)>>, <<>>, ng)
        /\ pd2ppc_lookups =
              [c \in {x \in CategorySet : OwnedRows(owner, x) # {}} |->
                  [k \in 0..(Cardinality(OwnedRows(owner, c)) - 1) |->
                      RowOf(OwnedRows(owner, c), k)]]
        /\ is_elems =
              [c \in CategorySet |->
                  LET n == Cardinality(OwnedRows(owner, c))
                  IN  [index |-> [k \in 0..(n - 1) |-> k],
                       has_cost_per_kw |-> c # noCost,
                       cost_per_kw |-> [k \in 0..(n - 1) |->
                                           cost[RowOf(OwnedRows(owner, c), k)]]]]

(* buses, generator rows and branches vary; a branch joins two buses *)
BranchRows(nb) ==
    {[F_BUS |-> f, T_BUS |-> t, y |-> y] :
        f \in 0..(nb - 1), t \in 0..(nb - 1), y \in Admittances}

InitLoss ==
    /\ \E nb \in 1..MaxBus, ng \in 0..MaxGen :
         \E branch \in Arrays({b \in BranchRows(nb) : b.F_BUS # b.T_BUS}, MaxBranch) :
            ppci = Case([b \in 0..(nb - 1) |-> BusRow(IF b = 0 THEN REF ELSE PQ)], branch, ng)
    /\ pd2ppc_lookups = <<>>
    /\ is_elems = NoElems

ObjInit ==
    /\ call = NoCall
    /\ (InitRef \/ InitCost \/ InitLoss)
    /\ net = <<>> /\ ctrl = <<>> /\ op = <<>> /\ phase = ""

(* a call of _make_objective(ppci, net, is_elems, cost_function, lambda_opf) *)
MakeObjective(cost_function, lambda_opf) ==
    /\ ppci' = make_objective(ppci, cost_function, lambda_opf)
    /\ call' = [cost_function |-> cost_function, lambda_opf |-> lambda_opf]
    /\ UNCHANGED <<pd2ppc_lookups, is_elems>>
    /\ UNCHANGED ctlVars

(* lambda_opf is read by "linear_minloss" alone: the other calls leave it *)
(* at its default, 1                                                      *)
ObjNext ==
    \E cost_function \in CostFunctions :
        \E lambda_opf \in (IF cost_function = "linear_minloss" THEN Lambdas ELSE {1}) :
            MakeObjective(cost_function, lambda_opf)

SpecObjective == ObjInit /\ [][ObjNext]_vars

----------------------------------------------------------------------------
(* ConstControl *)

(* what self.values holds: None, a scalar, an array (one value per         *)
(* position) or a pandas Series (values with their labels)                 *)
NoneValue == [kind |-> "none"]
Scalar(v) == [kind |-> "scalar", s |-> v]
Array(a) == [kind |-> "array", a |-> a]
Series(index, a) == [kind |-> "series", index |-> index, a |-> a]

(* element_index: an int, or a list of labels *)
IntIndex(i) == [kind |-> "int", i |-> i]
ListIndex(l) == [kind |-> "list", l |-> l]

Rows == 0..(MaxRows - 1)
Times == 0..MaxTime
Columns == {"p_mw", "q_mvar"}
Attributes == {"vm_set_pu", "tol"}
ScaleFactors == {1, 2}
Elements == {"sgen", "controller"}
(* a variable name, split at its dots *)
Variables == {<<"p_mw">>, <<"object", "vm_set_pu">>}
RecognizedWrites == {"single_index", "all_index", "loc", "object"}
UnrecognizedWrites == {"bogus"}

(* the data sources: a frame of profiles, one column per profile name;     *)
(* get_time_step_value returns None at the time steps the source has no    *)
(* value for                                                               *)
NoDataSource == [kind |-> "None", missing |-> {}]
DataSources == {[kind |-> "DFData", missing |-> {}], [kind |-> "DFData", missing |-> {1}]}
Profile(time, name) == Fin(10 * (time + 1) + name)

get_time_step_value(ds, time_step, profile_name, scale_factor) ==
    CASE time_step \in ds.missing -> NoneValue
      [] profile_name.kind = "int" ->
            Scalar(MulFloat(Profile(time_step, profile_name.i), scale_factor))
      [] OTHER ->
            Array([k \in DOMAIN profile_name.l |->
                      MulFloat(Profile(time_step, profile_name.l[k]), scale_factor)])

(* the net before the controller is built: the element table, the objects  *)
(* of its "object" column, and the controller's row of net.controller      *)
InitialNet(recycle) ==
    [element |-> [i \in Rows |-> [c \in Columns |-> IF c = "p_mw" THEN Fin(i + 1) ELSE Fin(0)]],
     object |-> [i \in Rows |-> [a \in Attributes |-> Fin(100 + i)]],
     controller |-> [recycle |-> [enabled |-> recycle]]]

(* set_recycle: the recycle hint of the controller's row *)
set_recycle(n, element, variable) ==
    LET allowed == {"load", "sgen", "storage", "gen", "ext_grid", "trafo", "trafo3w", "line"}
        name == IF Len(variable) = 1 THEN variable[1] ELSE ""
        bus_pq == /\ element \in {"sgen", "load", "storage"}
                  /\ name \in {"p_mw", "q_mvar", "scaling"}
        gen == \/ element \in {"gen"} /\ name \in {"p_mw", "vm_pu", "scaling"}
               \/ element \in {"ext_grid"} /\ name \in {"vm_pu", "va_degree"}
        trafo == element \in {"trafo", "trafo3w", "line"}
    IN  IF ~n.controller.recycle.enabled \/ element \notin allowed
        THEN [n EXCEPT !.controller.recycle = [enabled |-> FALSE]]
        ELSE IF trafo \/ gen \/ bus_pq
        THEN [n EXCEPT !.controller.recycle =
                 [enabled |-> TRUE, trafo |-> trafo, gen |-> gen, bus_pq |-> bus_pq]]
        ELSE [n EXCEPT !.controller.recycle = [enabled |-> FALSE]]

(* the write strategy __init__ selects *)
SelectWrite(variable, element_index) ==
    IF variable[1] = "object" THEN "object"
    ELSE IF element_index.kind = "int" THEN "single_index"
    ELSE "loc"

(* ConstControl.__init__: the fields of the new controller *)
ConstControl(element, variable, element_index, profile_name, data_source, scale_factor) ==
    [data_source |-> data_source,
     element_index |-> element_index,
     element |-> element,
     variable |-> variable,
     values |-> NoneValue,
     profile_name |-> profile_name,
     scale_factor |-> scale_factor,
     applied |-> FALSE,
     object_attribute |-> IF variable[1] = "object" THEN variable[2] ELSE "None",
     write |-> SelectWrite(variable, element_index)]

(* how a write ends: the net, and the exception raised ("" for none) *)
Done(n) == [net |-> n, exc |-> ""]
Raise(n, e) == [net |-> n, exc |-> e]

Labels(element_index) ==
    IF element_index.kind = "int" THEN {element_index.i}
    ELSE {element_index.l[k] : k \in DOMAIN element_index.l}

SetCell(n, i, col, v) == [n EXCEPT !.element[i][col] = v]

(* net[element].at[element_index, variable] = values *)
write_to_single_index(c, n) ==
    IF c.element_index.kind = "int" /\ c.values.kind = "scalar"
    THEN Done(SetCell(n, c.element_index.i, c.variable[1], c.values.s))
    ELSE Raise(n, "ValueError")

(* the value a label-based write gives row i of the labels l: a scalar     *)
(* goes to every row, an array by position, a Series by its own labels, a  *)
(* row it has no label for getting NaN                                     *)
ValueFor(values, l, i) ==
    CASE values.kind = "scalar" -> values.s
      [] values.kind = "array" ->
            values.a[CHOOSE k \in DOMAIN l : l[k] = i]
      [] OTHER ->
            IF \E k \in DOMAIN values.index : values.index[k] = i
            THEN values.a[CHOOSE k \in DOMAIN values.index : values.index[k] = i]
            ELSE NaN

WriteLabels(c, n, l) ==
    IF c.values.kind = "array" /\ Len(c.values.a) # Len(l)
    THEN Raise(n, "ValueError")
    ELSE Done([n EXCEPT !.element =
                  [i \in Rows |->
                      IF \E k \in DOMAIN l : l[k] = i
                      THEN [n.element[i] EXCEPT ![c.variable[1]] = ValueFor(c.values, l, i)]
                      ELSE n.element[i]]])

AllLabels == [k \in 1..MaxRows |-> k - 1]

(* net[element].loc[:, variable] = values *)
write_to_all_index(c, n) == WriteLabels(c, n, AllLabels)

(* net[element].loc[element_index, variable] = values *)
write_with_loc(c, n) ==
    WriteLabels(c, n, IF c.element_index.kind = "int" THEN <<c.element_index.i>>
                      ELSE c.element_index.l)

SetAttr(n, i, a, v) == [n EXCEPT !.object[i][a] = v]

RECURSIVE SetAttrs(_, _, _, _, _)
SetAttrs(n, l, vals, a, k) ==
    IF k > Len(l) \/ k > Len(vals) THEN n
    ELSE SetAttrs(SetAttr(n, l[k], a, vals[k]), l, vals, a, k + 1)

(* setattr on the object of each target: a loop over zip(element_index,    *)
(* values) for several indices, one .at access otherwise                   *)
write_to_object_attribute(c, n) ==
    IF c.element_index.kind = "list" /\ Len(c.element_index.l) > 1
    THEN IF c.values.kind = "scalar" THEN Raise(n, "TypeError")
         ELSE Done(SetAttrs(n, c.element_index.l, c.values.a, c.object_attribute, 1))
    ELSE IF c.element_index.kind = "list" THEN Raise(n, "InvalidIndexError")
    ELSE IF c.values.kind = "scalar"
    THEN Done(SetAttr(n, c.element_index.i, c.object_attribute, c.values.s))
    ELSE Raise(n, "ValueError")

write_to_net_ignores_unknown(c, n) ==
    CASE c.write = "single_index" -> write_to_single_index(c, n)
      [] c.write = "all_index" -> write_to_all_index(c, n)
      [] c.write = "loc" -> write_with_loc(c, n)
      [] c.write = "object" -> write_to_object_attribute(c, n)
      [] OTHER -> Done(n)

(* write_to_net: the dispatch on self.write *)
write_to_net(c, n) ==
    CASE c.write = "single_index" -> write_to_single_index(c, n)
      [] c.write = "all_index" -> write_to_all_index(c, n)
      [] c.write = "loc" -> write_with_loc(c, n)
      [] c.write = "object" -> write_to_object_attribute(c, n)
      [] OTHER -> Raise(n, "NotImplementedError")

HasColumn(variable) == Len(variable) = 1 /\ variable[1] \in Columns

ReadCurrentOtherColumn(c, n) ==
    IF c.element_index.kind = "int"
    THEN Scalar(n.element[c.element_index.i]["q_mvar"])
    ELSE Series(c.element_index.l,
                [k \in DOMAIN c.element_index.l |-> n.element[c.element_index.l[k]]["q_mvar"]])

(* net[element][variable].loc[element_index] *)
ReadCurrent(c, n) ==
    IF c.element_index.kind = "int"
    THEN Scalar(n.element[c.element_index.i][c.variable[1]])
    ELSE Series(c.element_index.l,
                [k \in DOMAIN c.element_index.l |->
                    n.element[c.element_index.l[k]][c.variable[1]]])

time_step_keeps_applied(c, n, time) ==
    LET c1 == c
    IN  IF c.data_source.kind = "None" /\ ~HasColumn(c.variable)
        THEN [ctrl |-> c1, net |-> n, exc |-> "KeyError"]
        ELSE LET fetched ==
                    IF c.data_source.kind = "None" THEN ReadCurrent(c1, n)
                    ELSE get_time_step_value(c.data_source, time, c.profile_name,
                                             c.scale_factor)
                 c2 == [c1 EXCEPT !.values = fetched]
             IN  IF fetched.kind # "none"
                 THEN [ctrl |-> c2] @@ write_to_net(c2, n)
                 ELSE [ctrl |-> c2, net |-> n, exc |-> ""]

time_step_ignores_scale_factor(c, n, time) ==
    LET c1 == [c EXCEPT !.applied = FALSE]
    IN  IF c.data_source.kind = "None" /\ ~HasColumn(c.variable)
        THEN [ctrl |-> c1, net |-> n, exc |-> "KeyError"]
        ELSE LET fetched ==
                    IF c.data_source.kind = "None" THEN ReadCurrent(c1, n)
                    ELSE get_time_step_value(c.data_source, time, c.profile_name, 1)
                 c2 == [c1 EXCEPT !.values = fetched]
             IN  IF fetched.kind # "none"
                 THEN [ctrl |-> c2] @@ write_to_net(c2, n)
                 ELSE [ctrl |-> c2, net |-> n, exc |-> ""]

(* ConstControl.time_step: the controller, the net and the exception it    *)
(* ends with                                                               *)
time_step(c, n, time) ==
    LET c1 == [c EXCEPT !.applied = FALSE]
    IN  IF c.data_source.kind = "None" /\ ~HasColumn(c.variable)
        THEN [ctrl |-> c1, net |-> n, exc |-> "KeyError"]
        ELSE LET fetched ==
                    IF c.data_source.kind = "None" THEN ReadCurrent(c1, n)
                    ELSE get_time_step_value(c.data_source, time, c.profile_name,
                                             c.scale_factor)
                 c2 == [c1 EXCEPT !.values = fetched]
             IN  IF fetched.kind # "none"
                 THEN [ctrl |-> c2] @@ write_to_net(c2, n)
                 ELSE [ctrl |-> c2, net |-> n, exc |-> ""]

----------------------------------------------------------------------------
(* The controllers that are built: an int, or a list of distinct labels in *)
(* ascending order, of rows of the element table; one profile per target,  *)
(* named as the target                                                     *)
RECURSIVE Ascending(_)
Ascending(S) ==
    IF S = {} THEN <<>>
    ELSE LET m == CHOOSE x \in S : \A y \in S : y <= x
         IN  Append(Ascending(S \ {m}), m)

ElementIndices ==
    {IntIndex(i) : i \in Rows} \cup {ListIndex(Ascending(S)) : S \in (SUBSET Rows) \ {{}}}

Op(name, time, exc, ret) == [name |-> name, time |-> time, exc |-> exc, ret |-> ret]

CtlInit ==
    /\ \E element \in Elements, variable \in Variables, element_index \in ElementIndices,
          data_source \in DataSources \cup {NoDataSource}, scale_factor \in ScaleFactors,
          recycle \in BOOLEAN :
          /\ ctrl = ConstControl(element, variable, element_index, element_index,
                                 data_source, scale_factor)
          /\ net = set_recycle(InitialNet(recycle), element, variable)
    /\ op = Op("construct", 0, "", FALSE)
    /\ phase = "construct"
    /\ ppci = <<>> /\ pd2ppc_lookups = <<>> /\ is_elems = <<>> /\ call = <<>>

TimeStep(time) ==
    LET r == time_step(ctrl, net, time)
    IN  /\ ctrl' = r.ctrl
        /\ net' = r.net
        /\ op' = Op("time_step", time, r.exc, FALSE)
        /\ phase' = "time_step"
        /\ UNCHANGED objVars

IsConverged ==
    /\ op' = Op("is_converged", 0, "", ctrl.applied)
    /\ UNCHANGED <<net, ctrl, phase>>
    /\ UNCHANGED objVars

ControlStep ==
    /\ ctrl' = [ctrl EXCEPT !.applied = TRUE]
    /\ op' = Op("control_step", 0, "", FALSE)
    /\ phase' = "control_step"
    /\ UNCHANGED net
    /\ UNCHANGED objVars

(* self.write is a plain attribute: code outside the class (a subclass, a  *)
(* controller restored from a file) can leave any string in it             *)
SetWrite(w) ==
    /\ ctrl.write # w
    /\ ctrl' = [ctrl EXCEPT !.write = w]
    /\ op' = Op("set_write", 0, "", FALSE)
    /\ UNCHANGED <<net, phase>>
    /\ UNCHANGED objVars

CtlNext ==
    \/ \E time \in Times : TimeStep(time)
    \/ IsConverged
    \/ ControlStep
    \/ \E w \in UnrecognizedWrites : SetWrite(w)

SpecControl == CtlInit /\ [][CtlNext]_vars

----------------------------------------------------------------------------
(* What the ConstControl claims speak of *)
Targets == Labels(ctrl.element_index)
ToObject == ctrl.variable[1] = "object"
TargetValue(n, i) ==
    IF ToObject THEN n.object[i][ctrl.variable[2]] ELSE n.element[i][ctrl.variable[1]]
(* the value the data source returns for target i: its profile at the time *)
(* step, times the scale factor                                            *)
Returned(i, time) == Fin((10 * (time + 1) + i) * ctrl.scale_factor)
Absent(time) == time \in ctrl.data_source.missing
(* the write strategy is the one __init__ chose, for an int or for several *)
(* indices                                                                 *)
AsConstructed ==
    /\ ctrl.write = (IF ToObject THEN "object"
                     ELSE IF ctrl.element_index.kind = "int" THEN "single_index" ELSE "loc")
    /\ ctrl.element_index.kind = "list" => Len(ctrl.element_index.l) > 1
(* every cell and attribute that is not a target is as before the step *)
Frame ==
    /\ \A i \in Rows, col \in Columns :
          (ToObject \/ i \notin Targets \/ col # ctrl.variable[1]) =>
              net'.element[i][col] = net.element[i][col]
    /\ \A i \in Rows, a \in Attributes :
          (~ToObject \/ i \notin Targets \/ a # ctrl.variable[2]) =>
              net'.object[i][a] = net.object[i][a]
    /\ net'.controller = net.controller
    /\ DOMAIN net' = DOMAIN net

C6_Applied ==
    /\ [](/\ ctrl.applied = (phase = "control_step")
          /\ op.name = "is_converged" => op.ret = ctrl.applied)
    /\ [][op'.name = "is_converged" => UNCHANGED <<net, ctrl, phase>>]_vars

C6_Witness ==
    /\ op = Op("is_converged", 0, "", TRUE)
    /\ phase = "control_step"
    /\ ctrl.values.kind = "scalar"

C9_AlwaysRaises ==
    [][(/\ op'.name = "time_step"
        /\ ctrl.write \notin RecognizedWrites
        /\ ctrl.data_source.kind # "None") =>
          /\ op'.exc = "NotImplementedError"
          /\ net' = net]_vars

(* C9, amended: with an unrecognized self.write no time_step writes to the *)
(* net; it raises NotImplementedError when it has a value to write, ends   *)
(* without an error when the data source returned None, and raises the     *)
(* KeyError of the read when there is no data source and no such column.   *)
C9_RaisesWhenWriting ==
    [][(op'.name = "time_step" /\ ctrl.write \notin RecognizedWrites) =>
          /\ net' = net
          /\ op'.exc =
                (IF ctrl.data_source.kind = "None"
                 THEN IF ctrl.variable \in {<<col>> : col \in Columns}
                      THEN "NotImplementedError" ELSE "KeyError"
                 ELSE IF Absent(op'.time) THEN "" ELSE "NotImplementedError")]_vars

C9_Witness ==
    /\ op = Op("time_step", 0, "NotImplementedError", FALSE)
    /\ ctrl.write = "bogus"
    /\ ctrl.data_source.kind = "DFData"
    /\ ctrl.values.kind = "array"
    /\ net.element = InitialNet(TRUE).element

----------------------------------------------------------------------------
(* What the claims speak of *)
ng == Len0(ppci.gen)
nb == Len0(ppci.bus)
nl == Len0(ppci.branch)
nref == NRef(ppci)
Recognized == {"linear", "linear_minloss"}

(* the categories, by their place in the order of assignment, that supply  *)
(* a cost for row r                                                        *)
Suppliers(r) ==
    {i \in 1..4 :
        /\ Categories[i] \in DOMAIN pd2ppc_lookups
        /\ is_elems[Categories[i]].has_cost_per_kw
        /\ \E k \in DOMAIN is_elems[Categories[i]].index :
              pd2ppc_lookups[Categories[i]][is_elems[Categories[i]].index[k]] = r}

(* the cost coefficient of row r: the cost_per_kw of the element mapped to *)
(* it, 1 when no category addresses it                                     *)
Coefficient(r) ==
    IF Suppliers(r) = {} THEN Fin(1)
    ELSE LET i == CHOOSE i \in Suppliers(r) : \A j \in Suppliers(r) : j <= i
             el == is_elems[Categories[i]]
             k == CHOOSE k \in DOMAIN el.index :
                     pd2ppc_lookups[Categories[i]][el.index[k]] = r
         IN  el.cost_per_kw[k]

(* what the last field of row r holds *)
ScaledCost(r) ==
    CASE Coefficient(r)[1] = "nan" -> Fin(0)
      [] Coefficient(r)[1] = "inf" -> MaxFloat(Coefficient(r)[2])
      [] OTHER -> Fin(1000 * Coefficient(r)[2])

(* C1, as stated: after a "linear" or "linear_minloss" call with           *)
(* nref <= ng the cost table has ng rows, the first nref with the          *)
(* reference template's flag (1) and the others with the alternate flag    *)
(* (0) in the one field where the templates differ, the last.              *)
C1_FlagsSurvive ==
    (call.cost_function \in Recognized /\ nref <= ng) =>
        /\ DOMAIN ppci.gencost = 0..(ng - 1)
        /\ \A r \in DOMAIN ppci.gencost :
              ppci.gencost[r][7] = Fin(IF r < nref THEN 1 ELSE 0)

(* C1, amended: the cost table has ng rows of 8 fields; every row holds in *)
(* its first seven fields the values both templates share, and its last    *)
(* field, the only one the templates differ in, holds the row's scaled     *)
(* cost whether the row is among the first nref or not.                    *)
C1_RowsAndTemplate ==
    (call.cost_function \in Recognized /\ nref <= ng) =>
        /\ DOMAIN ppci.gencost = 0..(ng - 1)
        /\ \A r \in DOMAIN ppci.gencost :
              /\ DOMAIN ppci.gencost[r] = 0..7
              /\ \A c \in 0..6 :
                    /\ ppci.gencost[r][c] = Fin(RefTemplate[c + 1])
                    /\ ppci.gencost[r][c] = Fin(GenTemplate[c + 1])
              /\ ppci.gencost[r][7] = ScaledCost(r)

C1_Witness ==
    /\ call.cost_function = "linear_minloss"
    /\ ng = 2
    /\ nref = 1
    /\ ppci.gencost[0][7] = Fin(1000)
    /\ ppci.gencost[1][7] = Fin(1000)

(* C2, as stated: the last field of every row is 1000 times the row's      *)
(* cost coefficient, and exactly 0 where the coefficient is NaN.           *)
C2_ThousandTimesCost ==
    call.cost_function \in Recognized =>
        \A r \in DOMAIN ppci.gencost :
            ppci.gencost[r][7] =
                IF Coefficient(r) = NaN THEN Fin(0) ELSE MulFloat(Coefficient(r), 1000)

(* C2, amended: the last field of every row is 1000 times the row's cost   *)
(* coefficient where that is finite, exactly 0 where it is NaN, and the    *)
(* largest finite float of its sign where it is infinite.                  *)
C2_ScaledCost ==
    call.cost_function \in Recognized =>
        \A r \in DOMAIN ppci.gencost :
            /\ ppci.gencost[r][7] = ScaledCost(r)
            /\ ppci.gencost[r][7] # NaN

C2_Witness ==
    /\ call.cost_function = "linear"
    /\ ng = 2
    /\ Coefficient(0) = Fin(10) /\ ppci.gencost[0][7] = Fin(10000)
    /\ Coefficient(1) = NaN /\ ppci.gencost[1][7] = Fin(0)

(* C3: after a "linear_minloss" call H and N are square of size            *)
(* 2*nb + 2*ng + 2*nl, A has 2*nl rows and that many columns, l and u have *)
(* length 2*nl and l[i] = -u[i] = 0 for every i; no stored entry lies      *)
(* outside its matrix.                                                     *)
C3_Shapes ==
    call.cost_function = "linear_minloss" =>
        LET dim == 2 * nb + 2 * ng + 2 * nl
            inside(M) == \A p \in DOMAIN M.data :
                            /\ p[1] \in 0..(M.shape[1] - 1)
                            /\ p[2] \in 0..(M.shape[2] - 1)
        IN  /\ ppci.H.shape = <<dim, dim>>
            /\ ppci.N.shape = <<dim, dim>>
            /\ ppci.A.shape = <<2 * nl, dim>>
            /\ inside(ppci.H) /\ inside(ppci.N) /\ inside(ppci.A)
            /\ DOMAIN ppci.l = 0..(2 * nl - 1)
            /\ DOMAIN ppci.u = 0..(2 * nl - 1)
            /\ \A i \in 0..(2 * nl - 1) :
                  ppci.l[i] = -ppci.u[i] /\ ppci.l[i] = 0 /\ ppci.u[i] = 0

C3_Witness ==
    /\ call.cost_function = "linear_minloss"
    /\ nb = 2 /\ ng = 1 /\ nl = 2
    /\ ppci.H.shape = <<10, 10>>
    /\ ppci.A.shape = <<4, 10>>
    /\ Len0(ppci.l) = 4

(* C4, as stated: the case a "linear" call returns holds none of H, N, A,  *)
(* l, u, Cw, fparm, whatever calls came before on the same case.           *)
C4_LinearHasNoArtifacts ==
    call.cost_function = "linear" => DOMAIN ppci \cap ArtifactKeys = {}

(* C4, amended: a "linear" call writes the cost table alone: each of H, N, *)
(* A, l, u, Cw, fparm is in the returned case exactly if it was in the     *)
(* case before the call, and then with the value it had.                   *)
C4_LinearWritesNoArtifact ==
    [][call'.cost_function = "linear" =>
          /\ "gencost" \in DOMAIN ppci'
          /\ \A k \in ArtifactKeys :
                /\ k \in DOMAIN ppci' <=> k \in DOMAIN ppci
                /\ k \in DOMAIN ppci => ppci'[k] = ppci[k]]_vars

C4_Witness ==
    /\ call.cost_function = "linear"
    /\ "gencost" \in DOMAIN ppci
    /\ DOMAIN ppci \cap ArtifactKeys = {}
    /\ nl = 1

(* C8: a call with a cost_function that is neither "linear" nor            *)
(* "linear_minloss" returns the case with every field as it was.           *)
C8_UnknownModeNoOp ==
    [][call'.cost_function \notin Recognized => ppci' = ppci]_vars

C8_Witness ==
    /\ call.cost_function = "quadratic"
    /\ ArtifactKeys \subseteq DOMAIN ppci
    /\ "gencost" \in DOMAIN ppci
    /\ nl = 1

(* the slots of branch i in H *)
MagSlot(i) == 2 * nb + 2 * ng + i
AngSlot(i) == 2 * nb + 2 * ng + nl + i
BranchY(i) == AbsYbus(ppci.bus, ppci.branch)[ppci.branch[i].F_BUS][ppci.branch[i].T_BUS]
NonZero(M) == {p \in DOMAIN M.data : M.data[p] # 0}

C10_Values ==
    /\ \A i \in 0..(nl - 1) :
          /\ GetItem(ppci.H, MagSlot(i), MagSlot(i)) = BranchY(i) * call.lambda_opf
          /\ GetItem(ppci.H, AngSlot(i), AngSlot(i)) = BranchY(i)
    /\ \A p \in DOMAIN ppci.H.data :
          \E i \in 0..(nl - 1) : p = <<MagSlot(i), MagSlot(i)>> \/ p = <<AngSlot(i), AngSlot(i)>>

(* C10, as stated: after a "linear_minloss" call H holds                   *)
(* |Y(f,t)| * lambda_opf at the magnitude slot and |Y(f,t)| at the angle   *)
(* slot of every branch, has exactly 2*nl nonzero entries, and is zero     *)
(* everywhere else.                                                        *)
C10_TwoNonzeroPerBranch ==
    call.cost_function = "linear_minloss" =>
        /\ C10_Values
        /\ Cardinality(NonZero(ppci.H)) = 2 * nl

(* C10, amended: after a "linear_minloss" call H holds                     *)
(* |Y(f,t)| * lambda_opf at the magnitude slot and |Y(f,t)| at the angle   *)
(* slot of every branch and is zero everywhere else; a slot is nonzero     *)
(* exactly if its weight is, so H has 2*nl nonzero entries only when no    *)
(* |Y(f,t)| is 0 and lambda_opf is not 0.                                  *)
C10_SlotValues ==
    call.cost_function = "linear_minloss" =>
        /\ C10_Values
        /\ NonZero(ppci.H) =
              {<<MagSlot(i), MagSlot(i)>> : i \in {j \in 0..(nl - 1) :
                                                    BranchY(j) * call.lambda_opf # 0}}
              \cup {<<AngSlot(i), AngSlot(i)>> : i \in {j \in 0..(nl - 1) : BranchY(j) # 0}}
        /\ Cardinality(NonZero(ppci.H)) <= 2 * nl

C10_Witness ==
    /\ call.cost_function = "linear_minloss"
    /\ call.lambda_opf = 2
    /\ nl = 2 /\ nb = 2 /\ ng = 1
    /\ ppci.branch[0].y = 1 /\ ppci.branch[1].y = 1
    /\ GetItem(ppci.H, 6, 6) = 4
    /\ GetItem(ppci.H, 8, 8) = 2
    /\ Cardinality(NonZero(ppci.H)) = 4

====
